---- MODULE Spec2Model ----
(***************************************************************************)
(* hodea-core-slib: byte order conversion (hodea/core/cpu_endian.hpp) and  *)
(* the device-family dispatch headers of the HAL                           *)
(* (hodea/device/hal/hal_pin_config.hpp, retarget_stdout_uart.hpp).        *)
(*                                                                         *)
(* A behaviour is one translation unit: the preprocessor works through the *)
(* header the unit includes (the endianness detection chain, or a brand    *)
(* dispatch), and, when cpu_endian.hpp compiled, the program calls the     *)
(* twelve conversion functions.                                            *)
(*                                                                         *)
(* Representation of values.  A W-bit unsigned value is the sequence of    *)
(* its W/8 bytes, least significant byte first: element i+1 is the byte at *)
(* position i.  0x0102 is <<2, 1>>, 0x01020304 is <<4, 3, 2, 1>>.  The     *)
(* width is the length of the sequence, so no value leaves its width.      *)
(*                                                                         *)
(* Representation of macros.  A macro is either undefined (Undef) or has   *)
(* the integer value the preprocessor / the compiler gives its replacement *)
(* list (true is 1, false is 0).                                           *)
(***************************************************************************)
EXTENDS Integers, Sequences, FiniteSets, TLC

VARIABLES
    unit,               \* the header this translation unit includes
    predef,             \* the toolchain's predefined macros: name -> value or Undef
    cmdline,            \* HODEA_IS_CPU_LE as passed on the command line (-D), or Undef
    brand,              \* the HODEA_DERIVED_CONFIG_BRAND_* macros that are defined
    pc,                 \* "cpp": preprocessing ahead, "compiled", "error": build halted
    HODEA_IS_CPU_LE,    \* the macro once the detection chain has run
    diag,               \* the diagnostic that halted or accompanied the build
    included,           \* the device-specific header a dispatch header forwarded to
    call                \* the last conversion call: function, argument, return value

vars == <<unit, predef, cmdline, brand, pc, HODEA_IS_CPU_LE, diag, included, call>>

----------------------------------------------------------------------------
(* Bounds and input sets *)

\* How many of the sample byte values the inputs are built from.
NumByteVals == 2

\* Sample byte values: the two boundary bytes first, then others.
SampleBytes == <<0, 255, 1, 171>>

ByteVals == {SampleBytes[i] : i \in 1..NumByteVals}

\* The values the documentation names, and the 32- and 64-bit analogues of
\* the 16-bit scenario (least significant byte first).
Examples ==
    { <<2, 1>>,                         \* 0x0102
      <<205, 171>>,                     \* 0xABCD
      <<4, 3, 2, 1>>,                   \* 0x01020304
      <<239, 205, 171, 137>>,           \* 0x89ABCDEF
      <<8, 7, 6, 5, 4, 3, 2, 1>> }      \* 0x0102030405060708

\* The arguments of width n bytes the calls are made with.
Inputs(n) == [1..n -> ByteVals] \cup {x \in Examples : Len(x) = n}

----------------------------------------------------------------------------
(* The preprocessor *)

Undef == 0 - 1

MacroNames ==
    { "__GNUC__", "__clang__", "__CC_ARM", "__ICCARM__",
      "__BYTE_ORDER__", "__ORDER_LITTLE_ENDIAN__", "__ORDER_BIG_ENDIAN__",
      "__BIG_ENDIAN", "__LITTLE_ENDIAN__" }

NoMacros == [m \in MacroNames |-> Undef]

\* `defined M`
defined(m) == predef[m] # Undef

\* The value of an identifier in a #if expression: an identifier that is not
\* a macro is replaced by 0.
PPVal(m) == IF predef[m] = Undef THEN 0 ELSE predef[m]

\* The value the detection chain #defines HODEA_IS_CPU_LE to (true = 1,
\* false = 0), or Undef when no branch defines it.
DetectedLE ==
    IF defined("__GNUC__") \/ defined("__clang__")
    THEN IF PPVal("__BYTE_ORDER__") = PPVal("__ORDER_LITTLE_ENDIAN__") THEN 1
         ELSE IF PPVal("__BYTE_ORDER__") = PPVal("__ORDER_BIG_ENDIAN__") THEN 0
         ELSE Undef
    ELSE IF defined("__CC_ARM")
    THEN IF defined("__BIG_ENDIAN") THEN 0 ELSE 1
    ELSE IF defined("__ICCARM__")
    THEN IF PPVal("__LITTLE_ENDIAN__") = 0 THEN 0
         ELSE IF PPVal("__LITTLE_ENDIAN__") = 1 THEN 1
         ELSE Undef
    ELSE Undef

\* The toolchains' predefined macro sets.
GnuEndian ==
    { [bo |-> Undef, ol |-> Undef, ob |-> Undef],      \* none of the three (GCC before 4.6)
      [bo |-> 1234, ol |-> 1234, ob |-> 4321],
      [bo |-> 4321, ol |-> 1234, ob |-> 4321],
      [bo |-> 3412, ol |-> 1234, ob |-> 4321] }        \* __ORDER_PDP_ENDIAN__

GnuPredef(ids, e) ==
    [m \in MacroNames |->
        IF m \in ids THEN 1
        ELSE IF m = "__BYTE_ORDER__" THEN e.bo
        ELSE IF m = "__ORDER_LITTLE_ENDIAN__" THEN e.ol
        ELSE IF m = "__ORDER_BIG_ENDIAN__" THEN e.ob
        ELSE Undef]

Toolchains ==
    {GnuPredef({"__GNUC__"}, e) : e \in GnuEndian}
    \cup {GnuPredef({"__GNUC__", "__clang__"}, e) : e \in GnuEndian}
    \cup {[NoMacros EXCEPT !["__CC_ARM"] = 1, !["__BIG_ENDIAN"] = b] : b \in {Undef, 1}}
    \cup {[NoMacros EXCEPT !["__ICCARM__"] = 1, !["__LITTLE_ENDIAN__"] = v] : v \in {0, 1}}
    \cup {NoMacros}

----------------------------------------------------------------------------
(* is_cpu_le, is_cpu_be *)

HODEA_IS_CPU_BE_same(v) == v

\* #define HODEA_IS_CPU_BE (!HODEA_IS_CPU_LE)
HODEA_IS_CPU_BE(v) == IF v = 0 THEN 1 ELSE 0

\* constexpr bool is_cpu_le(): the macro's value converted to bool
is_cpu_le == HODEA_IS_CPU_LE # 0

is_cpu_be == HODEA_IS_CPU_BE(HODEA_IS_CPU_LE) # 0

----------------------------------------------------------------------------
(* uswap16, uswap32, uswap64 (hodea/core/uswap.hpp): the unconditional     *)
(* byte swap, the byte at position i moves to position W/8 - 1 - i.        *)

ByteReverse(x) == [i \in 1..Len(x) |-> x[Len(x) + 1 - i]]

\* Conversion of an argument to the n-byte parameter type of a function:
\* truncation to the low n bytes, zero extension above them.
ToWidth(x, n) == [i \in 1..n |-> IF i <= Len(x) THEN x[i] ELSE 0]

uswap16(x) == ByteReverse(ToWidth(x, 2))

uswap32(x) == ByteReverse(ToWidth(x, 4))

uswap64(x) == ByteReverse(ToWidth(x, 8))

----------------------------------------------------------------------------
(* The twelve conversion functions *)

cpu_to_le16_inverted(x) == IF is_cpu_be THEN x ELSE uswap16(x)

cpu_to_le16(x) == IF is_cpu_le THEN x ELSE uswap16(x)

\* the 16-bit swap in the 32-bit function; the result converts back to uint32_t
cpu_to_le32_swap16(x) == IF is_cpu_le THEN x ELSE ToWidth(uswap16(x), 4)

cpu_to_le32(x) == IF is_cpu_le THEN x ELSE uswap32(x)

cpu_to_le64(x) == IF is_cpu_le THEN x ELSE uswap64(x)

cpu_to_be16(x) == IF is_cpu_be THEN x ELSE uswap16(x)

cpu_to_be32_inverted(x) == IF is_cpu_le THEN x ELSE uswap32(x)

cpu_to_be32(x) == IF is_cpu_be THEN x ELSE uswap32(x)

cpu_to_be64_noswap(x) == x

cpu_to_be64(x) == IF is_cpu_be THEN x ELSE uswap64(x)

le16_to_cpu(x) == cpu_to_le16(x)

le32_to_cpu(x) == cpu_to_le32(x)

\* a reverse path written out again, swapping unconditionally
le64_to_cpu_own_path(x) == uswap64(x)

le64_to_cpu(x) == cpu_to_le64(x)

\* a reverse path written out again, with the test of the other order
be16_to_cpu_own_path(x) == IF is_cpu_le THEN x ELSE uswap16(x)

be16_to_cpu(x) == cpu_to_be16(x)

be32_to_cpu(x) == cpu_to_be32(x)

be64_to_cpu(x) == cpu_to_be64(x)

----------------------------------------------------------------------------
(* The HAL dispatch headers: which branch of the #if chain is compiled *)

BrandNames == {"HODEA_DERIVED_CONFIG_BRAND_STM32", "HODEA_DERIVED_CONFIG_BRAND_IMX_M4"}

\* hal_pin_config.hpp
PinConfig_stm32 == "HODEA_DERIVED_CONFIG_BRAND_STM32" \in brand

PinConfig_else == ~PinConfig_stm32

\* retarget_stdout_uart.hpp
Retarget_stm32 == "HODEA_DERIVED_CONFIG_BRAND_STM32" \in brand

Retarget_imx_m4_if == "HODEA_DERIVED_CONFIG_BRAND_IMX_M4" \in brand

Retarget_imx_m4 ==
    /\ ~Retarget_stm32
    /\ "HODEA_DERIVED_CONFIG_BRAND_IMX_M4" \in brand

Retarget_else ==
    /\ ~Retarget_stm32
    /\ "HODEA_DERIVED_CONFIG_BRAND_IMX_M4" \notin brand

----------------------------------------------------------------------------
(* Initial states *)

NoCall == [fn |-> "none", arg |-> <<>>, ret |-> <<>>]

\* A unit that includes cpu_endian.hpp: any toolchain, HODEA_IS_CPU_LE passed
\* as true, as false or not at all.  A unit that includes a HAL dispatch
\* header: any set of brand macros.
Init ==
    /\ pc = "cpp"
    /\ HODEA_IS_CPU_LE = Undef
    /\ diag = "none"
    /\ included = "none"
    /\ call = NoCall
    /\ \/ /\ unit = "cpu_endian"
          /\ predef \in Toolchains
          /\ cmdline \in {Undef, 0, 1}
          /\ brand = {}
       \/ /\ unit \in {"hal_pin_config", "retarget_stdout_uart"}
          /\ predef = NoMacros
          /\ cmdline = Undef
          /\ brand \in SUBSET BrandNames

----------------------------------------------------------------------------
(* Preprocessing cpu_endian.hpp, lines 33 - 72 *)

\* The chain #defines the macro although the command line defined it with
\* another replacement list.
Redefinition == cmdline # Undef /\ DetectedLE # Undef /\ DetectedLE # cmdline

\* The macro after the chain: the chain's #define when a branch made one,
\* else what the command line defined.
AfterChain_no_cmdline == DetectedLE

AfterChain == IF DetectedLE # Undef THEN DetectedLE ELSE cmdline

DetectEndianness ==
    /\ unit = "cpu_endian"
    /\ pc = "cpp"
    /\ \/ /\ AfterChain = Undef
          /\ pc' = "error"
          /\ diag' = "Unable to detect cpu endianness via predefined macros."
          /\ HODEA_IS_CPU_LE' = Undef
       \/ /\ AfterChain # Undef
          /\ ~Redefinition
          /\ pc' = "compiled"
          /\ diag' = "none"
          /\ HODEA_IS_CPU_LE' = AfterChain
       \* an incompatible redefinition is ill-formed: the compiler either
       \* rejects it or warns and lets the later #define stand
       \/ /\ Redefinition
          /\ pc' = "compiled"
          /\ diag' = "HODEA_IS_CPU_LE redefined"
          /\ HODEA_IS_CPU_LE' = AfterChain
       \/ /\ Redefinition
          /\ pc' = "error"
          /\ diag' = "HODEA_IS_CPU_LE redefined"
          /\ HODEA_IS_CPU_LE' = Undef
    /\ UNCHANGED <<unit, predef, cmdline, brand, included, call>>

----------------------------------------------------------------------------
(* Preprocessing the HAL dispatch headers *)

IncludePinConfig ==
    /\ unit = "hal_pin_config"
    /\ pc = "cpp"
    /\ \/ /\ PinConfig_stm32
          /\ pc' = "compiled"
          /\ included' = "hodea/device/stm32/stm32_pin_config.hpp"
          /\ diag' = "none"
       \/ /\ PinConfig_else
          /\ pc' = "error"
          /\ included' = "none"
          /\ diag' = "Unsupported device."
    /\ UNCHANGED <<unit, predef, cmdline, brand, HODEA_IS_CPU_LE, call>>

IncludeRetargetStdoutUart ==
    /\ unit = "retarget_stdout_uart"
    /\ pc = "cpp"
    /\ \/ /\ Retarget_stm32
          /\ pc' = "compiled"
          /\ included' = "hodea/device/stm32/retarget_stdout_uart.hpp"
          /\ diag' = "none"
       \/ /\ Retarget_imx_m4
          /\ pc' = "error"
          /\ included' = "none"
          /\ diag' = "imx_m4 not yet supported"
       \/ /\ Retarget_else
          /\ pc' = "error"
          /\ included' = "none"
          /\ diag' = "Unsupported device."
    /\ UNCHANGED <<unit, predef, cmdline, brand, HODEA_IS_CPU_LE, call>>

----------------------------------------------------------------------------
(* Calls of the conversion functions, in a unit that compiled.  The         *)
(* functions are pure and keep nothing between calls, so a behaviour makes *)
(* one call: any function, any argument.                                   *)

CanCall ==
    /\ unit = "cpu_endian"
    /\ pc = "compiled"
    /\ call = NoCall

\* function name called with argument x returns r
Call(name, x, r) ==
    /\ call' = [fn |-> name, arg |-> x, ret |-> r]
    /\ UNCHANGED <<unit, predef, cmdline, brand, pc, HODEA_IS_CPU_LE, diag, included>>

Call_cpu_to_le16 == CanCall /\ \E x \in Inputs(2) : Call("cpu_to_le16", x, cpu_to_le16(x))

Call_cpu_to_le32 == CanCall /\ \E x \in Inputs(4) : Call("cpu_to_le32", x, cpu_to_le32(x))

Call_cpu_to_le64 == CanCall /\ \E x \in Inputs(8) : Call("cpu_to_le64", x, cpu_to_le64(x))

Call_cpu_to_be16 == CanCall /\ \E x \in Inputs(2) : Call("cpu_to_be16", x, cpu_to_be16(x))

Call_cpu_to_be32 == CanCall /\ \E x \in Inputs(4) : Call("cpu_to_be32", x, cpu_to_be32(x))

Call_cpu_to_be64 == CanCall /\ \E x \in Inputs(8) : Call("cpu_to_be64", x, cpu_to_be64(x))

Call_le16_to_cpu == CanCall /\ \E x \in Inputs(2) : Call("le16_to_cpu", x, le16_to_cpu(x))

Call_le32_to_cpu == CanCall /\ \E x \in Inputs(4) : Call("le32_to_cpu", x, le32_to_cpu(x))

Call_le64_to_cpu == CanCall /\ \E x \in Inputs(8) : Call("le64_to_cpu", x, le64_to_cpu(x))

Call_be16_to_cpu == CanCall /\ \E x \in Inputs(2) : Call("be16_to_cpu", x, be16_to_cpu(x))

Call_be32_to_cpu == CanCall /\ \E x \in Inputs(4) : Call("be32_to_cpu", x, be32_to_cpu(x))

Call_be64_to_cpu == CanCall /\ \E x \in Inputs(8) : Call("be64_to_cpu", x, be64_to_cpu(x))

Next ==
    \/ DetectEndianness
    \/ IncludePinConfig
    \/ IncludeRetargetStdoutUart
    \/ Call_cpu_to_le16
    \/ Call_cpu_to_le32
    \/ Call_cpu_to_le64
    \/ Call_cpu_to_be16
    \/ Call_cpu_to_be32
    \/ Call_cpu_to_be64
    \/ Call_le16_to_cpu
    \/ Call_le32_to_cpu
    \/ Call_le64_to_cpu
    \/ Call_be16_to_cpu
    \/ Call_be32_to_cpu
    \/ Call_be64_to_cpu

Spec == Init /\ [][Next]_vars

----------------------------------------------------------------------------
(* Vocabulary of the properties *)

CpuToLe == {"cpu_to_le16", "cpu_to_le32", "cpu_to_le64"}

CpuToBe == {"cpu_to_be16", "cpu_to_be32", "cpu_to_be64"}

LeToCpu == {"le16_to_cpu", "le32_to_cpu", "le64_to_cpu"}

BeToCpu == {"be16_to_cpu", "be32_to_cpu", "be64_to_cpu"}

\* cpu_endian.hpp compiled, and a conversion function was called
Called == unit = "cpu_endian" /\ pc = "compiled" /\ call.fn # "none"

\* cpu_to_<o><W> and <o><W>_to_cpu for the width of x, W = 8 * Len(x)
CpuTo(o, x) ==
    IF o = "le"
    THEN IF Len(x) = 2 THEN cpu_to_le16(x) ELSE IF Len(x) = 4 THEN cpu_to_le32(x) ELSE cpu_to_le64(x)
    ELSE IF Len(x) = 2 THEN cpu_to_be16(x) ELSE IF Len(x) = 4 THEN cpu_to_be32(x) ELSE cpu_to_be64(x)

ToCpu(o, x) ==
    IF o = "le"
    THEN IF Len(x) = 2 THEN le16_to_cpu(x) ELSE IF Len(x) = 4 THEN le32_to_cpu(x) ELSE le64_to_cpu(x)
    ELSE IF Len(x) = 2 THEN be16_to_cpu(x) ELSE IF Len(x) = 4 THEN be32_to_cpu(x) ELSE be64_to_cpu(x)

\* uswap<W> for the width of x
USwap(x) == IF Len(x) = 2 THEN uswap16(x) ELSE IF Len(x) = 4 THEN uswap32(x) ELSE uswap64(x)

\* The order the called function converts to or from
OrderOf(fn) == IF fn \in CpuToLe \cup LeToCpu THEN "le" ELSE "be"

\* r is x with its bytes reversed: the byte at position i of x is at
\* position Len(x) - 1 - i of r
IsReversed(x, r) ==
    /\ Len(r) = Len(x)
    /\ \A i \in 0..(Len(x) - 1) : r[(Len(x) - 1 - i) + 1] = x[i + 1]

AllZero(n) == [i \in 1..n |-> 0]

AllOnes(n) == [i \in 1..n |-> 255]

----------------------------------------------------------------------------
(* C1: when the native order differs from the target order, cpu_to_<O><W>  *)
(* returns its argument with the W/8 bytes reversed (byte i at position    *)
(* W/8 - 1 - i); on a little-endian build cpu_to_be16(0x0102) = 0x0201,    *)
(* cpu_to_be32(0x01020304) = 0x04030201, cpu_to_be64(0x0102030405060708) = *)
(* 0x0807060504030201, and on a big-endian build the same for cpu_to_le.   *)
C1_ByteReversal ==
    Called =>
        /\ (call.fn \in CpuToBe /\ is_cpu_le) => IsReversed(call.arg, call.ret)
        /\ (call.fn \in CpuToLe /\ is_cpu_be) => IsReversed(call.arg, call.ret)
        /\ (call.fn \in {"cpu_to_be16", "cpu_to_le16"} /\ call.arg = <<2, 1>>
                /\ is_cpu_le = (call.fn = "cpu_to_be16")) => call.ret = <<1, 2>>
        /\ (call.fn \in {"cpu_to_be32", "cpu_to_le32"} /\ call.arg = <<4, 3, 2, 1>>
                /\ is_cpu_le = (call.fn = "cpu_to_be32")) => call.ret = <<1, 2, 3, 4>>
        /\ (call.fn \in {"cpu_to_be64", "cpu_to_le64"} /\ call.arg = <<8, 7, 6, 5, 4, 3, 2, 1>>
                /\ is_cpu_le = (call.fn = "cpu_to_be64")) => call.ret = <<1, 2, 3, 4, 5, 6, 7, 8>>

C1_Witness ==
    /\ Called
    /\ is_cpu_le
    /\ call.fn = "cpu_to_be32"
    /\ call.arg = <<4, 3, 2, 1>>
    /\ call.ret = <<1, 2, 3, 4>>

(* C2: identity when the order matches the native order: on a build where  *)
(* is_cpu_le() is true the cpu_to_le and le_to_cpu functions return their  *)
(* argument, on a build where is_cpu_be() is true the cpu_to_be and        *)
(* be_to_cpu functions do.                                                 *)
C2_IdentityWhenNative ==
    Called =>
        /\ (is_cpu_le /\ call.fn \in CpuToLe \cup LeToCpu) => call.ret = call.arg
        /\ (is_cpu_be /\ call.fn \in CpuToBe \cup BeToCpu) => call.ret = call.arg

C2_Witness ==
    /\ Called
    /\ is_cpu_le
    /\ call.fn = "cpu_to_le16"
    /\ call.arg = <<205, 171>>
    /\ call.ret = <<205, 171>>

(* C3: round trip and involution: converting the result of cpu_to_<O><W>   *)
(* back with <O><W>_to_cpu, or applying cpu_to_<O><W> to it again, gives   *)
(* the original argument, on either build.                                 *)
C3_RoundTrip ==
    (Called /\ call.fn \in CpuToLe \cup CpuToBe) =>
        /\ ToCpu(OrderOf(call.fn), call.ret) = call.arg
        /\ CpuTo(OrderOf(call.fn), call.ret) = call.arg

C3_Witness ==
    /\ Called
    /\ call.fn = "cpu_to_be16"
    /\ call.arg = <<205, 171>>
    /\ call.ret = <<171, 205>>
    /\ be16_to_cpu(call.ret) = <<205, 171>>

(* C4: direction equivalence: <O><W>_to_cpu(x) = cpu_to_<O><W>(x) for      *)
(* every width, order, argument and build.                                 *)
C4_DirectionEquivalence ==
    Called =>
        /\ call.fn \in LeToCpu \cup BeToCpu => call.ret = CpuTo(OrderOf(call.fn), call.arg)
        /\ call.fn \in CpuToLe \cup CpuToBe => call.ret = ToCpu(OrderOf(call.fn), call.arg)

C4_Witness ==
    /\ Called
    /\ is_cpu_be
    /\ call.fn = "le64_to_cpu"
    /\ call.arg = <<8, 7, 6, 5, 4, 3, 2, 1>>
    /\ call.ret = <<1, 2, 3, 4, 5, 6, 7, 8>>

(* C5: in every build that compiles, exactly one of is_cpu_le() and        *)
(* is_cpu_be() is true.                                                    *)
C5_ExactlyOneOrder ==
    (unit = "cpu_endian" /\ pc = "compiled") => (is_cpu_le # is_cpu_be)

C5_Witness ==
    /\ unit = "cpu_endian"
    /\ pc = "compiled"
    /\ defined("__CC_ARM")
    /\ defined("__BIG_ENDIAN")
    /\ is_cpu_be
    /\ ~is_cpu_le

\* What the toolchain's predefined macros say about the target, by the
\* toolchain's own documentation: GCC and clang through __BYTE_ORDER__ and
\* the two __ORDER_ macros, ARM Compiler 5 through the presence of
\* __BIG_ENDIAN, IAR through __LITTLE_ENDIAN__ being 1 or 0.
IndicatesLittle ==
    IF defined("__GNUC__") \/ defined("__clang__")
    THEN defined("__BYTE_ORDER__") /\ defined("__ORDER_LITTLE_ENDIAN__")
         /\ predef["__BYTE_ORDER__"] = predef["__ORDER_LITTLE_ENDIAN__"]
    ELSE IF defined("__CC_ARM") THEN ~defined("__BIG_ENDIAN")
    ELSE IF defined("__ICCARM__") THEN predef["__LITTLE_ENDIAN__"] = 1
    ELSE FALSE

IndicatesBig ==
    IF defined("__GNUC__") \/ defined("__clang__")
    THEN defined("__BYTE_ORDER__") /\ defined("__ORDER_BIG_ENDIAN__")
         /\ predef["__BYTE_ORDER__"] = predef["__ORDER_BIG_ENDIAN__"]
    ELSE IF defined("__CC_ARM") THEN defined("__BIG_ENDIAN")
    ELSE IF defined("__ICCARM__") THEN predef["__LITTLE_ENDIAN__"] = 0
    ELSE FALSE

(* C6: fail fast: when the toolchain's macros indicate neither little nor  *)
(* big (a macro absent, or a value that is neither) and no HODEA_IS_CPU_LE *)
(* is passed, the build halts at the #error and HODEA_IS_CPU_LE gets no    *)
(* value.                                                                  *)
C6_FailFast ==
    (/\ unit = "cpu_endian"
     /\ pc # "cpp"
     /\ cmdline = Undef
     /\ ~IndicatesLittle
     /\ ~IndicatesBig)
    => (pc = "error" /\ HODEA_IS_CPU_LE = Undef)

(* C7: when the detection chain leaves the endianness unknown, passing     *)
(* HODEA_IS_CPU_LE = true or false lets the build pass the #error check,   *)
(* is_cpu_le() is the value passed and is_cpu_be() its negation.           *)
C7_Override ==
    (/\ unit = "cpu_endian"
     /\ pc # "cpp"
     /\ DetectedLE = Undef
     /\ cmdline \in {0, 1})
    => /\ pc = "compiled"
       /\ is_cpu_le = (cmdline = 1)
       /\ is_cpu_be = (cmdline = 0)

C7_Witness ==
    /\ unit = "cpu_endian"
    /\ pc = "compiled"
    /\ predef = NoMacros
    /\ cmdline = 0
    /\ is_cpu_be
    /\ call.fn = "cpu_to_le16"
    /\ call.ret = ByteReverse(call.arg)

(* C8: the all-zero and the all-ones value of every width are returned     *)
(* unchanged by all twelve conversion functions, on either build.          *)
C8_BoundaryValues ==
    (Called /\ call.arg \in {AllZero(Len(call.arg)), AllOnes(Len(call.arg))})
        => call.ret = call.arg

C8_Witness ==
    /\ Called
    /\ is_cpu_be
    /\ call.fn = "cpu_to_le32"
    /\ call.arg = <<255, 255, 255, 255>>
    /\ call.ret = <<255, 255, 255, 255>>

\* The branches of the dispatch header of this unit whose condition holds
MatchingBranches ==
    IF unit = "hal_pin_config"
    THEN {b \in {"stm32", "else"} :
            \/ b = "stm32" /\ PinConfig_stm32
            \/ b = "else" /\ PinConfig_else}
    ELSE {b \in {"stm32", "imx_m4", "else"} :
            \/ b = "stm32" /\ Retarget_stm32
            \/ b = "imx_m4" /\ Retarget_imx_m4
            \/ b = "else" /\ Retarget_else}

HalUnit == unit \in {"hal_pin_config", "retarget_stdout_uart"}

StmHeader ==
    IF unit = "hal_pin_config"
    THEN "hodea/device/stm32/stm32_pin_config.hpp"
    ELSE "hodea/device/stm32/retarget_stdout_uart.hpp"

(* C9 as stated: the branches are mutually exclusive, every branch that    *)
(* matches a defined brand macro forwards to a device-specific header, and *)
(* the build is aborted only when no brand branch matches.                 *)
C9_DispatchAsStated ==
    (HalUnit /\ pc # "cpp") =>
        /\ Cardinality(MatchingBranches) = 1
        /\ MatchingBranches # {"else"} => (pc = "compiled" /\ included # "none")
        /\ pc = "error" => MatchingBranches = {"else"}

(* C9 amended: the branches are mutually exclusive; the STM32 branch       *)
(* forwards to the STM32 header of the dispatch header; the build is       *)
(* aborted when no brand branch matches ("Unsupported device.") and when   *)
(* the IMX_M4 branch of retarget_stdout_uart.hpp matches ("imx_m4 not yet  *)
(* supported"), and in no other case.                                      *)
C9_Dispatch ==
    (HalUnit /\ pc # "cpp") =>
        /\ Cardinality(MatchingBranches) = 1
        /\ MatchingBranches = {"stm32"} =>
                (pc = "compiled" /\ included = StmHeader /\ diag = "none")
        /\ MatchingBranches = {"imx_m4"} =>
                (unit = "retarget_stdout_uart" /\ pc = "error" /\ included = "none"
                 /\ diag = "imx_m4 not yet supported")
        /\ MatchingBranches = {"else"} =>
                (pc = "error" /\ included = "none" /\ diag = "Unsupported device.")

C9_Witness ==
    /\ unit = "retarget_stdout_uart"
    /\ brand = {"HODEA_DERIVED_CONFIG_BRAND_IMX_M4"}
    /\ pc = "error"
    /\ diag = "imx_m4 not yet supported"

(* C10: on every build, for every width and argument, one of cpu_to_le<W>  *)
(* and cpu_to_be<W> is the identity and the other the byte swap (which one *)
(* is fixed by the native order), so the two commute and their composition *)
(* is uswap<W>.                                                            *)
C10_LeBeCompose ==
    Called =>
        LET x == call.arg
        IN /\ \/ (is_cpu_le /\ ~is_cpu_be /\ CpuTo("le", x) = x /\ CpuTo("be", x) = USwap(x))
              \/ (is_cpu_be /\ ~is_cpu_le /\ CpuTo("be", x) = x /\ CpuTo("le", x) = USwap(x))
           /\ CpuTo("be", CpuTo("le", x)) = CpuTo("le", CpuTo("be", x))
           /\ CpuTo("be", CpuTo("le", x)) = USwap(x)

C10_Witness ==
    /\ Called
    /\ is_cpu_be
    /\ call.arg = <<8, 7, 6, 5, 4, 3, 2, 1>>
    /\ cpu_to_be64(cpu_to_le64(call.arg)) = <<1, 2, 3, 4, 5, 6, 7, 8>>
    /\ cpu_to_le64(cpu_to_be64(call.arg)) = <<1, 2, 3, 4, 5, 6, 7, 8>>

====
